---- MODULE Spec2Model ----
(***************************************************************************)
(* Model of the trace aggregation engine of ts-tracelytics: analyzeTrace   *)
(* (analyzer.ts) with its helpers getFilePath and getFileExtension.        *)
(*                                                                         *)
(* JavaScript strings are sequences of one-character strings, so that the  *)
(* template-literal key, Number.prototype.toString and the default         *)
(* (code-unit) order of Array.prototype.sort are computed, not assumed.    *)
(* An optional value (dur?, args.path?, string | null) is a set: {} when   *)
(* it is absent, {v} when it is present.                                   *)
(***************************************************************************)
EXTENDS Integers, Sequences, FiniteSets

VARIABLES
  pool,         \* the events the input sequence is drawn from
  events,       \* the prefix of the input consumed by the for-of loop
  pc,           \* "loop" while events are consumed, "done" after the return
  stats,        \* const stats: Statistics
  beginEvents,  \* const beginEvents: Record<string, Record<string, TraceEvent>>
  uniqueFiles,  \* const uniqueFiles = new Set<string>()
  fileTimings,  \* const fileTimings: Record<string, FileStats>, in insertion order
  pairs,        \* history: the (Begin, End) pairs matched so far, in order
  remaining,    \* the number of events the input may still grow by
  other         \* a second invocation of analyzeTrace, while it is not running

vars == <<pool, events, pc, stats, beginEvents, uniqueFiles, fileTimings, pairs,
          remaining, other>>

\* The longest input sequence explored.
MaxEvents == 4

\* The length of slowestFiles: .slice(0, 10).
TopN == 10

\* The number of files already aggregated when an exploration of many files
\* starts.
PrefixFiles == 9

\* The longest file path drawn letter by letter.
MaxPathLen == 2

----------------------------------------------------------------------------
(* Values *)

Undefined == {}
Null == {}
Def(v) == {v}
Val(o) == CHOOSE v \in o : TRUE

\* JavaScript truthiness of an optional string: undefined and "" are falsy.
TruthyStr(o) == o # {} /\ Val(o) # <<>>

\* JavaScript truthiness of an optional number: undefined and 0 are falsy.
TruthyNum(o) == o # {} /\ Val(o) # 0

UNKNOWN == <<"u", "n", "k", "n", "o", "w", "n">>

RESOLVE_MODULE_NAMES_WORKER ==
  <<"r", "e", "s", "o", "l", "v", "e", "M", "o", "d", "u", "l", "e",
    "N", "a", "m", "e", "s", "W", "o", "r", "k", "e", "r">>

Put(f, k, v) == [x \in DOMAIN f \cup {k} |-> IF x = k THEN v ELSE f[x]]

Remove(f, k) == [x \in DOMAIN f \ {k} |-> f[x]]

Abs(n) == IF n < 0 THEN -n ELSE n

RECURSIVE Gcd(_, _)
Gcd(a, b) == IF b = 0 THEN a ELSE Gcd(b, a % b)

\* The quotient a / b of two integers (b > 0) as a fraction in lowest terms.
Quotient(a, b) ==
  LET g == Gcd(Abs(a), b) IN [num |-> a \div g, den |-> b \div g]

Zero == [num |-> 0, den |-> 1]

----------------------------------------------------------------------------
(* Number.prototype.toString and the default sort order *)

DigitChar(d) ==
  CASE d = 0 -> "0" [] d = 1 -> "1" [] d = 2 -> "2" [] d = 3 -> "3"
    [] d = 4 -> "4" [] d = 5 -> "5" [] d = 6 -> "6" [] d = 7 -> "7"
    [] d = 8 -> "8" [] d = 9 -> "9"

\* UTF-16 code unit of a decimal digit.
CharCode(c) ==
  CASE c = "0" -> 48 [] c = "1" -> 49 [] c = "2" -> 50 [] c = "3" -> 51
    [] c = "4" -> 52 [] c = "5" -> 53 [] c = "6" -> 54 [] c = "7" -> 55
    [] c = "8" -> 56 [] c = "9" -> 57

\* event.ts.toString() for a non-negative integer timestamp.
RECURSIVE ToString(_)
ToString(n) ==
  IF n < 10 THEN <<DigitChar(n)>>
  ELSE Append(ToString(n \div 10), DigitChar(n % 10))

\* s sorts before t in the default order of Array.prototype.sort.
RECURSIVE StringLess(_, _)
StringLess(s, t) ==
  IF t = <<>> THEN FALSE
  ELSE IF s = <<>> THEN TRUE
  ELSE IF Head(s) = Head(t) THEN StringLess(Tail(s), Tail(t))
  ELSE CharCode(Head(s)) < CharCode(Head(t))

\* Object.keys(o).sort(): the keys of o in the default sort order.
RECURSIVE SortedKeys(_)
SortedKeys(S) ==
  IF S = {} THEN <<>>
  ELSE LET m == CHOOSE x \in S : \A y \in S \ {x} : StringLess(x, y)
       IN <<m>> \o SortedKeys(S \ {m})

----------------------------------------------------------------------------
(* Helpers of analyzer.ts *)

getFilePath(event) ==
  IF TruthyStr(event.args.path) THEN event.args.path
  ELSE IF TruthyStr(event.args.fileName) THEN event.args.fileName
  ELSE Null

\* getFileExtension that takes the text after the first '.'.
getFileExtensionFirstDot(filePath) ==
  LET dots == {i \in 1..Len(filePath) : filePath[i] = "."} IN
  IF dots = {} THEN UNKNOWN
  ELSE LET first == CHOOSE i \in dots : \A j \in dots : i <= j IN
       IF first = Len(filePath) THEN UNKNOWN
       ELSE SubSeq(filePath, first + 1, Len(filePath))

\* filePath.match(/\.([^\.]+)$/): the text after the last '.', if any follows it.
getFileExtension(filePath) ==
  LET dots == {i \in 1..Len(filePath) : filePath[i] = "."} IN
  IF dots = {} THEN UNKNOWN
  ELSE LET last == CHOOSE i \in dots : \A j \in dots : j <= i IN
       IF last = Len(filePath) THEN UNKNOWN
       ELSE SubSeq(filePath, last + 1, Len(filePath))

\* `${event.name}:${filePath || "unknown"}`
MatchKey(event) ==
  LET filePath == getFilePath(event) IN
  event.name \o <<":">> \o (IF filePath # Null THEN Val(filePath) ELSE UNKNOWN)

NewOperation == [totalTime |-> 0, count |-> 0, averageTime |-> Zero]

\* AddTally with `totalTime = d` in place of `totalTime += d`.
AddTallyOverwrite(tally, k, d) ==
  LET cur == IF k \in DOMAIN tally THEN tally[k] ELSE NewOperation
  IN Put(tally, k, [cur EXCEPT !.totalTime = d, !.count = @ + 1])

\* The operation / category tally update shared in shape by both paths.
AddTally(tally, k, d) ==
  LET cur == IF k \in DOMAIN tally THEN tally[k] ELSE NewOperation
  IN Put(tally, k, [cur EXCEPT !.totalTime = @ + d, !.count = @ + 1])

\* Index of the file in fileTimings, 0 when it has no entry.
FileIndex(ft, path) ==
  IF \E i \in 1..Len(ft) : ft[i].path = path
  THEN CHOOSE i \in 1..Len(ft) : ft[i].path = path
  ELSE 0

\* AddFileTiming that leaves the per-operation breakdown as it is.
AddFileTimingTotalOnly(ft, path, operation, d) ==
  LET ft1 == IF FileIndex(ft, path) = 0
             THEN Append(ft, [path |-> path, totalTime |-> 0,
                              operations |-> <<>>])
             ELSE ft
      i == FileIndex(ft1, path)
  IN [ft1 EXCEPT ![i] = [@ EXCEPT !.totalTime = @ + d]]

\* fileTimings[filePath] is created when missing, then totalTime and
\* operations[operation] are increased by d.
AddFileTiming(ft, path, operation, d) ==
  LET ft1 == IF FileIndex(ft, path) = 0
             THEN Append(ft, [path |-> path, totalTime |-> 0,
                              operations |-> <<>>])
             ELSE ft
      i == FileIndex(ft1, path)
      ops == ft1[i].operations
      old == IF operation \in DOMAIN ops THEN ops[operation] ELSE 0
  IN [ft1 EXCEPT ![i] = [@ EXCEPT !.totalTime = @ + d,
                                  !.operations = Put(ops, operation, old + d)]]

\* stats.filesByType[ext]++ after the entry is created when missing.
AddFileType(fbt, path) ==
  LET ext == getFileExtension(path)
      old == IF ext \in DOMAIN fbt THEN fbt[ext] ELSE 0
  IN Put(fbt, ext, old + 1)

----------------------------------------------------------------------------
(* The branches of the loop body.  s is the local state of one invocation: *)
(* [stats, beginEvents, uniqueFiles, fileTimings].                         *)

\* Track file specific timing and file types (Complete path).
TrackFile(s, filePath, operation, d) ==
  IF filePath # Null
  THEN [s EXCEPT
          !.uniqueFiles = @ \cup {Val(filePath)},
          !.fileTimings = AddFileTiming(@, Val(filePath), operation, d),
          !.stats = [@ EXCEPT !.filesByType = AddFileType(@, Val(filePath))]]
  ELSE s

\* Track module resolution specifically (Complete path only).
TrackModuleResolution(mr, operation, d) ==
  IF operation = RESOLVE_MODULE_NAMES_WORKER
  THEN [mr EXCEPT !.totalTime = @ + d, !.totalCount = @ + 1]
  ELSE mr

\* OnComplete that counts the event under its category only when the
\* category has an entry already.
OnCompleteKnownCategory(s, event) ==
  LET dur == Val(event.dur)
      s1 == [s EXCEPT !.stats =
               [@ EXCEPT
                  !.operationTimes = AddTally(@, event.name, dur),
                  !.categoryTimes =
                      IF event.cat \in DOMAIN @ THEN AddTally(@, event.cat, dur)
                      ELSE Put(@, event.cat, NewOperation),
                  !.moduleResolution =
                      TrackModuleResolution(@, event.name, dur)]]
  IN TrackFile(s1, getFilePath(event), event.name, dur)

\* if (event.ph === "X" && event.dur !== undefined) { ... }
OnComplete(s, event) ==
  LET dur == Val(event.dur)
      s1 == [s EXCEPT !.stats =
               [@ EXCEPT
                  !.operationTimes = AddTally(@, event.name, dur),
                  !.categoryTimes = AddTally(@, event.cat, dur),
                  !.moduleResolution =
                      TrackModuleResolution(@, event.name, dur)]]
  IN TrackFile(s1, getFilePath(event), event.name, dur)

\* beginEvents[key][timeKey] = event
RecordBegin(be, key, timeKey, event) ==
  Put(be, key, Put(IF key \in DOMAIN be THEN be[key] ELSE <<>>, timeKey, event))

\* OnBegin that already counts the operation when the Begin is seen.
OnBeginCounted(s, event) ==
  [s EXCEPT !.beginEvents =
              RecordBegin(@, MatchKey(event), ToString(event.ts), event),
            !.stats = [@ EXCEPT !.operationTimes = AddTally(@, event.name, 0)]]

\* else if (event.ph === "B") { ... }
OnBegin(s, event) ==
  [s EXCEPT !.beginEvents =
     RecordBegin(@, MatchKey(event), ToString(event.ts), event)]

\* if (beginEvents[key]) { ... if (timeKeys.length > 0) { ...
HasPending(be, key) == key \in DOMAIN be /\ DOMAIN be[key] # {}

\* const timeKey = timeKeys[0] after Object.keys(beginEvents[key]).sort()
FirstTimeKey(be, key) == SortedKeys(DOMAIN be[key])[1]

\* MatchedStats without the category update.
MatchedStatsNoCategory(st, event, duration) ==
  [st EXCEPT !.operationTimes = AddTally(@, event.name, duration)]

\* MatchedStats that tracks module resolution as the Complete path does.
MatchedStatsModuleResolution(st, event, duration) ==
  [st EXCEPT !.operationTimes = AddTally(@, event.name, duration),
             !.categoryTimes = AddTally(@, event.cat, duration),
             !.moduleResolution =
                 TrackModuleResolution(@, event.name, duration)]

\* Update operation stats and category stats in the matched End path.
MatchedStats(st, event, duration) ==
  [st EXCEPT !.operationTimes = AddTally(@, event.name, duration),
             !.categoryTimes = AddTally(@, event.cat, duration)]

\* MatchedFile without uniqueFiles.add(filePath).
MatchedFileUncounted(s, filePath, operation, duration) ==
  IF filePath # Null
  THEN [s EXCEPT
          !.fileTimings = AddFileTiming(@, Val(filePath), operation, duration),
          !.stats = [@ EXCEPT !.filesByType = AddFileType(@, Val(filePath))]]
  ELSE s

\* Track file specific timing and file types (matched End path).
MatchedFile(s, filePath, operation, duration) ==
  IF filePath # Null
  THEN [s EXCEPT
          !.uniqueFiles = @ \cup {Val(filePath)},
          !.fileTimings = AddFileTiming(@, Val(filePath), operation, duration),
          !.stats = [@ EXCEPT !.filesByType = AddFileType(@, Val(filePath))]]
  ELSE s

\* DeleteBegin that leaves the matched Begin in the registry.
DeleteBeginKept(be, key, timeKey) == be

\* delete beginEvents[key][timeKey]
DeleteBegin(be, key, timeKey) == [be EXCEPT ![key] = Remove(@, timeKey)]

\* OnEnd with the subtraction reversed (beginEvent.ts - event.ts).
OnEndReversed(s, event) ==
  LET key == MatchKey(event) IN
  IF HasPending(s.beginEvents, key)
  THEN LET timeKey == FirstTimeKey(s.beginEvents, key)
           beginEvent == s.beginEvents[key][timeKey]
           duration == beginEvent.ts - event.ts
           s1 == [s EXCEPT !.stats = MatchedStats(@, event, duration)]
           s2 == MatchedFile(s1, getFilePath(event), event.name, duration)
       IN [s2 EXCEPT !.beginEvents = DeleteBegin(@, key, timeKey)]
  ELSE s

\* else if (event.ph === "E") { ... }
OnEnd(s, event) ==
  LET key == MatchKey(event) IN
  IF HasPending(s.beginEvents, key)
  THEN LET timeKey == FirstTimeKey(s.beginEvents, key)
           beginEvent == s.beginEvents[key][timeKey]
           duration == event.ts - beginEvent.ts
           s1 == [s EXCEPT !.stats = MatchedStats(@, event, duration)]
           s2 == MatchedFile(s1, getFilePath(event), event.name, duration)
       IN [s2 EXCEPT !.beginEvents = DeleteBegin(@, key, timeKey)]
  ELSE s

----------------------------------------------------------------------------
(* After the loop *)

\* WithAverage with the integer quotient.
WithAverageTruncated(tally) ==
  [k \in DOMAIN tally |->
     [tally[k] EXCEPT
        !.averageTime = [num |-> tally[k].totalTime \div tally[k].count, den |-> 1]]]

WithAverage(tally) ==
  [k \in DOMAIN tally |->
     [tally[k] EXCEPT !.averageTime = Quotient(tally[k].totalTime, tally[k].count)]]

ModuleResolutionAverage(mr) ==
  IF mr.totalCount > 0
  THEN [mr EXCEPT !.averageTime = Quotient(mr.totalTime, mr.totalCount)]
  ELSE mr

SeqMax(q) == CHOOSE x \in {q[i] : i \in 1..Len(q)} : \A j \in 1..Len(q) : q[j] <= x
SeqMin(q) == CHOOSE x \in {q[i] : i \in 1..Len(q)} : \A j \in 1..Len(q) : x <= q[j]

RECURSIVE SelectNonMetadata(_)
SelectNonMetadata(evs) ==
  IF evs = <<>> THEN <<>>
  ELSE IF Head(evs).ph # "M" THEN <<Head(evs)>> \o SelectNonMetadata(Tail(evs))
  ELSE SelectNonMetadata(Tail(evs))

\* e.ph === "E" ? e.ts : e.ts + (e.dur || 0)
EndTimestamp(e) ==
  IF e.ph = "E" THEN e.ts
  ELSE e.ts + (IF TruthyNum(e.dur) THEN Val(e.dur) ELSE 0)

\* TotalTime with the minimum taken over the non-Metadata events only.
TotalTimeOfKept(evs) ==
  LET kept == SelectNonMetadata(evs)
      timestamps == [i \in 1..Len(kept) |-> EndTimestamp(kept[i])]
  IN IF Len(timestamps) > 0
     THEN SeqMax(timestamps) - SeqMin([i \in 1..Len(kept) |-> kept[i].ts])
     ELSE 0

\* Determine total build time (max timestamp - min timestamp)
TotalTime(evs) ==
  LET kept == SelectNonMetadata(evs)
      timestamps == [i \in 1..Len(kept) |-> EndTimestamp(kept[i])]
  IN IF Len(timestamps) > 0
     THEN SeqMax(timestamps) - SeqMin([i \in 1..Len(evs) |-> evs[i].ts])
     ELSE 0

IsDigit(c) == c \in {"0", "1", "2", "3", "4", "5", "6", "7", "8", "9"}

RECURSIVE ToNumber(_)
ToNumber(str) ==
  IF str = <<>> THEN 0
  ELSE 10 * ToNumber(SubSeq(str, 1, Len(str) - 1)) + (CharCode(str[Len(str)]) - 48)

\* An integer-like property key (array index): enumerated before the others.
IsArrayIndex(str) ==
  /\ str # <<>>
  /\ \A i \in 1..Len(str) : IsDigit(str[i])
  /\ (Len(str) = 1 \/ str[1] # "0")
  /\ Len(str) <= 9   \* below 2^32 - 1; longer digit strings are not drawn

RECURSIVE SelectSeq2(_, _)
SelectSeq2(q, keep) ==
  IF q = <<>> THEN <<>>
  ELSE IF Head(q).path \in keep THEN <<Head(q)>> \o SelectSeq2(Tail(q), keep)
  ELSE SelectSeq2(Tail(q), keep)

RECURSIVE AscendingIndexKeys(_, _)
AscendingIndexKeys(ft, S) ==
  IF S = {} THEN <<>>
  ELSE LET m == CHOOSE x \in S : \A y \in S : ToNumber(x) <= ToNumber(y)
       IN <<ft[FileIndex(ft, m)]>> \o AscendingIndexKeys(ft, S \ {m})

\* ObjectValues that enumerates every key in insertion order.
ObjectValuesInsertionOrder(ft) == ft

\* Object.values(fileTimings): integer-like keys in ascending numeric order,
\* then the other keys in insertion order.
ObjectValues(ft) ==
  LET paths == {ft[i].path : i \in 1..Len(ft)}
      idx == {x \in paths : IsArrayIndex(x)}
  IN AscendingIndexKeys(ft, idx) \o SelectSeq2(ft, paths \ idx)

\* InsertDescending with the comparison reversed (a.totalTime - b.totalTime).
RECURSIVE InsertAscending(_, _)
InsertAscending(q, x) ==
  IF q = <<>> THEN <<x>>
  ELSE IF Head(q).totalTime <= x.totalTime
       THEN <<Head(q)>> \o InsertAscending(Tail(q), x)
       ELSE <<x>> \o q

\* Insert x into a sequence sorted by totalTime descending, after its equals.
RECURSIVE InsertDescending(_, _)
InsertDescending(q, x) ==
  IF q = <<>> THEN <<x>>
  ELSE IF Head(q).totalTime >= x.totalTime
       THEN <<Head(q)>> \o InsertDescending(Tail(q), x)
       ELSE <<x>> \o q

\* .sort((a, b) => b.totalTime - a.totalTime), a stable sort
RECURSIVE SortDescending(_)
SortDescending(q) ==
  IF q = <<>> THEN <<>>
  ELSE InsertDescending(SortDescending(SubSeq(q, 1, Len(q) - 1)), q[Len(q)])

Slice(q, n) == SubSeq(q, 1, IF Len(q) < n THEN Len(q) ELSE n)

\* The statements between the loop and `return stats`.
Finish(s, evs) ==
  [s.stats EXCEPT
     !.operationTimes = WithAverage(@),
     !.categoryTimes = WithAverage(@),
     !.moduleResolution = ModuleResolutionAverage(@),
     !.totalTime = TotalTime(evs),
     !.totalFiles = Cardinality(s.uniqueFiles),
     !.slowestFiles = Slice(SortDescending(ObjectValues(s.fileTimings)), TopN)]

----------------------------------------------------------------------------
(* Inputs *)

Ev(name, cat, ph, ts, dur, path, fileName) ==
  [name |-> name, cat |-> cat, ph |-> ph, ts |-> ts, dur |-> dur,
   args |-> [path |-> path, fileName |-> fileName]]

BIND == <<"b", "i", "n", "d">>
CHECK == <<"c", "h", "e", "c", "k">>
META == <<"p", "r", "o", "c", "e", "s", "s", "_", "n", "a", "m", "e">>
F_TS == <<"f", ".", "t", "s">>
MAKEFILE == <<"M", "a", "k", "e">>
A_B == <<"a", ":", "b">>
B_C == <<"b", ":", "c">>

\* Complete events and Begin/End pairs, with and without a file, with the
\* module-resolution name in both encodings.
PoolMain ==
  { Ev(META, <<"_">>, "M", 0, Undefined, Def(MAKEFILE), Undefined),
    Ev(BIND, CHECK, "X", 0, Def(3), Def(F_TS), Undefined),
    Ev(BIND, BIND, "X", 2, Def(4), Undefined, Def(MAKEFILE)),
    Ev(RESOLVE_MODULE_NAMES_WORKER, CHECK, "X", 1, Def(5), Undefined, Undefined),
    Ev(BIND, CHECK, "X", 3, Undefined, Def(F_TS), Undefined),
    Ev(BIND, CHECK, "B", 10, Undefined, Undefined, Undefined),
    Ev(BIND, CHECK, "E", 50, Undefined, Undefined, Undefined),
    Ev(RESOLVE_MODULE_NAMES_WORKER, BIND, "B", 4, Undefined, Def(<<>>), Def(F_TS)),
    Ev(RESOLVE_MODULE_NAMES_WORKER, BIND, "E", 9, Undefined, Def(<<>>), Def(F_TS)) }

\* Several Begin events of one key whose timestamps differ in their number
\* of digits, and End events after them.
\* The traces of two invocations: both hold a Begin and an End on the same
\* operation and file, told apart by their timestamps.
PoolFirst ==
  { Ev(META, <<"_">>, "M", 0, Undefined, Undefined, Undefined),
    Ev(BIND, CHECK, "X", 0, Def(3), Def(F_TS), Undefined),
    Ev(BIND, CHECK, "X", 2, Undefined, Def(F_TS), Undefined),
    Ev(BIND, CHECK, "B", 1, Undefined, Def(F_TS), Undefined),
    Ev(BIND, CHECK, "E", 5, Undefined, Def(F_TS), Undefined) }
PoolSecond ==
  { Ev(BIND, CHECK, "X", 12, Def(2), Def(MAKEFILE), Undefined),
    Ev(BIND, CHECK, "B", 11, Undefined, Def(F_TS), Undefined),
    Ev(BIND, CHECK, "E", 18, Undefined, Def(F_TS), Undefined) }

PoolFifo ==
  { Ev(META, <<"_">>, "M", 0, Undefined, Undefined, Undefined),
    Ev(BIND, CHECK, "X", 0, Def(3), Undefined, Undefined),
    Ev(BIND, CHECK, "X", 3, Undefined, Undefined, Undefined),
    Ev(BIND, CHECK, "B", 5, Undefined, Undefined, Undefined),
    Ev(BIND, CHECK, "B", 8, Undefined, Undefined, Undefined),
    Ev(BIND, CHECK, "B", 10, Undefined, Undefined, Undefined),
    Ev(BIND, CHECK, "E", 20, Undefined, Undefined, Undefined),
    Ev(BIND, CHECK, "E", 30, Undefined, Undefined, Undefined) }

\* Begin and End events whose (name, path) pairs differ but are written with
\* ':' in a name or a path, or with the path "unknown".
PoolKeys ==
  { Ev(META, <<"_">>, "M", 0, Undefined, Undefined, Undefined),
    Ev(BIND, CHECK, "X", 0, Def(3), Def(UNKNOWN), Undefined),
    Ev(BIND, CHECK, "X", 3, Undefined, Undefined, Undefined),
    Ev(BIND, CHECK, "B", 1, Undefined, Undefined, Undefined),
    Ev(BIND, CHECK, "E", 6, Undefined, Undefined, Undefined),
    Ev(BIND, CHECK, "B", 2, Undefined, Def(UNKNOWN), Undefined),
    Ev(BIND, CHECK, "E", 5, Undefined, Def(UNKNOWN), Undefined),
    Ev(A_B, CHECK, "B", 3, Undefined, Def(<<"c">>), Undefined),
    Ev(<<"a">>, CHECK, "E", 7, Undefined, Def(B_C), Undefined) }

\* The i-th of many file paths: "f1.ts", "f2.ts", ...
FilePath(i) == <<"f">> \o ToString(i) \o <<".", "t", "s">>

\* Complete events on PrefixFiles different files; the durations fall from
\* PrefixFiles to 2 and the last two files tie.
FilesPrefix ==
  [i \in 1..PrefixFiles |->
     Ev(BIND, CHECK, "X", i,
        Def(IF PrefixFiles + 1 - i < 2 THEN 2 ELSE PrefixFiles + 1 - i),
        Def(FilePath(i)), Undefined)]

\* Events on further files whose totals tie with the last files of
\* FilesPrefix: two paths that are decimal numbers, an ordinary path with a
\* Complete event and a Begin/End pair of another operation, and one more
\* event on the first file.
PoolFiles ==
  { Ev(META, <<"_">>, "M", 0, Undefined, Undefined, Undefined),
    Ev(BIND, CHECK, "X", 20, Def(2), Def(<<"g">>), Undefined),
    Ev(BIND, CHECK, "X", 21, Def(2), Def(<<"7">>), Undefined),
    Ev(BIND, CHECK, "X", 19, Def(2), Def(<<"1", "0">>), Undefined),
    Ev(BIND, CHECK, "X", 22, Def(1), Def(FilePath(1)), Undefined),
    Ev(BIND, CHECK, "X", 23, Undefined, Def(<<"g">>), Undefined),
    Ev(CHECK, CHECK, "B", 24, Undefined, Def(<<"g">>), Undefined),
    Ev(CHECK, CHECK, "E", 26, Undefined, Def(<<"g">>), Undefined) }

\* Events whose raw and effective end timestamps differ, with Metadata events
\* before and after all of them.
PoolTime ==
  { Ev(META, <<"_">>, "M", 0, Undefined, Undefined, Undefined),
    Ev(META, <<"_">>, "M", 300, Undefined, Undefined, Undefined),
    Ev(BIND, CHECK, "X", 0, Def(100), Undefined, Undefined),
    Ev(BIND, CHECK, "X", 60, Def(0), Undefined, Undefined),
    Ev(BIND, CHECK, "X", 5, Undefined, Undefined, Undefined),
    Ev(BIND, CHECK, "B", 50, Undefined, Undefined, Undefined),
    Ev(BIND, CHECK, "E", 200, Undefined, Undefined, Undefined) }

\* Events that can be taken in and out of timestamp order: Begin events of
\* one key with one- and two-digit timestamps, End events between and after
\* them, and Complete events with a positive and a negative duration.
PoolOrder ==
  { Ev(META, <<"_">>, "M", 0, Undefined, Undefined, Undefined),
    Ev(BIND, CHECK, "X", 4, Def(3), Def(F_TS), Undefined),
    Ev(BIND, CHECK, "X", 6, Def(-1), Undefined, Undefined),
    Ev(BIND, CHECK, "X", 7, Undefined, Undefined, Undefined),
    Ev(CHECK, CHECK, "B", 5, Undefined, Def(F_TS), Undefined),
    Ev(CHECK, CHECK, "B", 10, Undefined, Def(F_TS), Undefined),
    Ev(CHECK, CHECK, "E", 8, Undefined, Def(F_TS), Undefined),
    Ev(CHECK, CHECK, "E", 12, Undefined, Def(F_TS), Undefined) }

SRC_APP_MODULE_TS ==
  <<"s", "r", "c", "/", "a", "p", "p", ".", "m", "o", "d", "u", "l", "e",
    ".", "t", "s">>
MAKEFILE_FULL == <<"M", "a", "k", "e", "f", "i", "l", "e">>

\* The file paths of the extension cases: every non-empty string of at most
\* MaxPathLen letters out of 't', 'T' and '.', and two longer paths.
ExtensionPaths ==
  UNION {[1..n -> {"t", "T", "."}] : n \in 1..MaxPathLen}
    \cup {SRC_APP_MODULE_TS, MAKEFILE_FULL}

\* The path with every 't' in the other case.
OtherCase(path) ==
  [i \in 1..Len(path) |->
     IF path[i] = "t" THEN "T" ELSE IF path[i] = "T" THEN "t" ELSE path[i]]

\* Events on one file path and on the same path in the other case.
PoolExtension(path) ==
  { Ev(META, <<"_">>, "M", 0, Undefined, Def(path), Undefined),
    Ev(BIND, CHECK, "X", 0, Def(3), Def(path), Undefined),
    Ev(BIND, CHECK, "X", 1, Def(4), Undefined, Def(OtherCase(path))),
    Ev(BIND, CHECK, "X", 2, Undefined, Def(path), Undefined),
    Ev(CHECK, CHECK, "B", 3, Undefined, Def(path), Undefined),
    Ev(CHECK, CHECK, "E", 7, Undefined, Def(path), Undefined) }

----------------------------------------------------------------------------
(* The state machine *)

\* InitStats with an "unknown" file type bucket present from the start.
InitStatsUnknownBucket ==
  [totalTime |-> 0, totalFiles |-> 0, operationTimes |-> <<>>,
   categoryTimes |-> <<>>, slowestFiles |-> <<>>,
   filesByType |-> Put(<<>>, UNKNOWN, 0),
   moduleResolution |-> [totalTime |-> 0, totalCount |-> 0, averageTime |-> Zero]]

InitStats ==
  [totalTime |-> 0, totalFiles |-> 0, operationTimes |-> <<>>,
   categoryTimes |-> <<>>, slowestFiles |-> <<>>, filesByType |-> <<>>,
   moduleResolution |-> [totalTime |-> 0, totalCount |-> 0, averageTime |-> Zero]]

\* No second invocation has been made.
NoInvocation == [pc |-> "none"]

InitLocals ==
  /\ events = <<>>
  /\ pc = "loop"
  /\ stats = InitStats
  /\ beginEvents = <<>>
  /\ uniqueFiles = {}
  /\ fileTimings = <<>>
  /\ pairs = <<>>
  /\ remaining = MaxEvents
  /\ other = NoInvocation

Init == pool = PoolMain /\ InitLocals
InitFifo == pool = PoolFifo /\ InitLocals
InitKeys == pool = PoolKeys /\ InitLocals
InitTime == pool = PoolTime /\ InitLocals
InitOrder == pool = PoolOrder /\ InitLocals
InitExtension ==
  /\ \E path \in ExtensionPaths : pool = PoolExtension(path)
  /\ InitLocals

\* Two invocations have been entered, each with its own trace and its own
\* fresh locals; the second one is not running.
InitTwo ==
  /\ pool = PoolFirst
  /\ events = <<>>
  /\ pc = "loop"
  /\ stats = InitStats
  /\ beginEvents = <<>>
  /\ uniqueFiles = {}
  /\ fileTimings = <<>>
  /\ pairs = <<>>
  /\ remaining = MaxEvents
  /\ other = [pool |-> PoolSecond, events |-> <<>>, pc |-> "loop",
              stats |-> InitStats, beginEvents |-> <<>>, uniqueFiles |-> {},
              fileTimings |-> <<>>, pairs |-> <<>>]

Locals ==
  [stats |-> stats, beginEvents |-> beginEvents,
   uniqueFiles |-> uniqueFiles, fileTimings |-> fileTimings]

\* The loop takes the next event of the input.
Take(event) ==
  /\ pc = "loop"
  /\ remaining > 0
  /\ event \in pool
  /\ events' = Append(events, event)
  /\ remaining' = remaining - 1
  /\ UNCHANGED <<pool, pc, other>>

Become(s) ==
  /\ stats' = s.stats
  /\ beginEvents' = s.beginEvents
  /\ uniqueFiles' = s.uniqueFiles
  /\ fileTimings' = s.fileTimings

IsComplete(event) == event.ph = "X" /\ event.dur # Undefined

\* The loop body: what one event does to the locals of the invocation.
Step(s, event) ==
  IF event.ph = "M" THEN s
  ELSE IF IsComplete(event) THEN OnComplete(s, event)
  ELSE IF event.ph = "B" THEN OnBegin(s, event)
  ELSE IF event.ph = "E" THEN OnEnd(s, event)
  ELSE s

\* The locals when the loop is entered.
FirstLocals ==
  [stats |-> InitStats, beginEvents |-> <<>>, uniqueFiles |-> {},
   fileTimings |-> <<>>]

\* for (const event of events) { ... }: the locals after the whole loop.
RECURSIVE RunLoop(_, _)
RunLoop(s, evs) ==
  IF evs = <<>> THEN s ELSE RunLoop(Step(s, Head(evs)), Tail(evs))

\* analyzeTrace(events)
analyzeTrace(evs) == Finish(RunLoop(FirstLocals, evs), evs)

\* The invocation has consumed the events of prefix, all of them Complete.
InitAfter(prefix) ==
  /\ events = prefix
  /\ pc = "loop"
  /\ stats = RunLoop(FirstLocals, prefix).stats
  /\ beginEvents = RunLoop(FirstLocals, prefix).beginEvents
  /\ uniqueFiles = RunLoop(FirstLocals, prefix).uniqueFiles
  /\ fileTimings = RunLoop(FirstLocals, prefix).fileTimings
  /\ pairs = <<>>
  /\ remaining = MaxEvents
  /\ other = NoInvocation

InitFiles == pool = PoolFiles /\ (InitAfter(<<>>) \/ InitAfter(FilesPrefix))

\* SkipMetadata that counts the event under its category before skipping it.
SkipMetadataCounted(event) ==
  /\ event.ph = "M"
  /\ Take(event)
  /\ stats' = [stats EXCEPT !.categoryTimes = AddTally(@, event.cat, 0)]
  /\ UNCHANGED <<beginEvents, uniqueFiles, fileTimings, pairs>>

\* if (event.ph === "M") continue;
SkipMetadata(event) ==
  /\ event.ph = "M"
  /\ Take(event)
  /\ UNCHANGED <<stats, beginEvents, uniqueFiles, fileTimings, pairs>>

HandleComplete(event) ==
  /\ IsComplete(event)
  /\ Take(event)
  /\ Become(OnComplete(Locals, event))
  /\ UNCHANGED pairs

HandleBegin(event) ==
  /\ event.ph = "B"
  /\ Take(event)
  /\ Become(OnBegin(Locals, event))
  /\ UNCHANGED pairs

\* The pending Begin that OnEnd pairs with the End event.
MatchedBegin(be, event) ==
  be[MatchKey(event)][FirstTimeKey(be, MatchKey(event))]

HandleEndMatched(event) ==
  /\ event.ph = "E"
  /\ HasPending(beginEvents, MatchKey(event))
  /\ Take(event)
  /\ Become(OnEnd(Locals, event))
  /\ pairs' = Append(pairs, [begin |-> MatchedBegin(beginEvents, event),
                             end |-> event])

HandleEndUnmatched(event) ==
  /\ event.ph = "E"
  /\ ~HasPending(beginEvents, MatchKey(event))
  /\ Take(event)
  /\ Become(OnEnd(Locals, event))
  /\ UNCHANGED pairs

\* A Complete event without dur enters no branch of the loop body.
PassOver(event) ==
  /\ event.ph = "X"
  /\ event.dur = Undefined
  /\ Take(event)
  /\ UNCHANGED <<stats, beginEvents, uniqueFiles, fileTimings, pairs>>

\* The input is exhausted: averages, totals, slowestFiles, return stats.
Finalize ==
  /\ pc = "loop"
  /\ pc' = "done"
  /\ stats' = Finish(Locals, events)
  /\ UNCHANGED <<pool, events, beginEvents, uniqueFiles, fileTimings, pairs,
                 remaining, other>>

\* The invocation that is not running, as it is left when the other runs.
Suspended ==
  [pool |-> pool, events |-> events, pc |-> pc, stats |-> stats,
   beginEvents |-> beginEvents, uniqueFiles |-> uniqueFiles,
   fileTimings |-> fileTimings, pairs |-> pairs]

\* Switch with the pending-begin registry held outside the invocations.
SwitchSharedRegistry ==
  /\ other # NoInvocation
  /\ other' = Suspended
  /\ pool' = other.pool
  /\ events' = other.events
  /\ pc' = other.pc
  /\ stats' = other.stats
  /\ uniqueFiles' = other.uniqueFiles
  /\ fileTimings' = other.fileTimings
  /\ pairs' = other.pairs
  /\ UNCHANGED <<beginEvents, remaining>>

\* The other invocation runs on: stats, beginEvents, uniqueFiles and
\* fileTimings are declared inside analyzeTrace, one of each per invocation.
Switch ==
  /\ other # NoInvocation
  /\ other' = Suspended
  /\ pool' = other.pool
  /\ events' = other.events
  /\ pc' = other.pc
  /\ stats' = other.stats
  /\ beginEvents' = other.beginEvents
  /\ uniqueFiles' = other.uniqueFiles
  /\ fileTimings' = other.fileTimings
  /\ pairs' = other.pairs
  /\ UNCHANGED remaining

Next ==
  \/ \E event \in pool : SkipMetadata(event)
  \/ \E event \in pool : HandleComplete(event)
  \/ \E event \in pool : HandleBegin(event)
  \/ \E event \in pool : HandleEndMatched(event)
  \/ \E event \in pool : HandleEndUnmatched(event)
  \/ \E event \in pool : PassOver(event)
  \/ Finalize

Spec == Init /\ [][Next]_vars
SpecFifo == InitFifo /\ [][Next]_vars
SpecKeys == InitKeys /\ [][Next]_vars
SpecFiles == InitFiles /\ [][Next]_vars
SpecTime == InitTime /\ [][Next]_vars
SpecOrder == InitOrder /\ [][Next]_vars
SpecExtension == InitExtension /\ [][Next]_vars

\* Two invocations, interleaved at any event or run one after the other.
NextTwo == Next \/ Switch
SpecTwo == InitTwo /\ [][NextTwo]_vars

----------------------------------------------------------------------------
(* Vocabulary of the properties *)

\* The matching key as the specification defines it: the operation name and
\* the file path, an absent file path being a value of its own (Null).
SpecKey(event) == <<event.name, getFilePath(event)>>

\* The step consumed one event of the input; Taken is that event.
Took == Len(events') = Len(events) + 1
Taken == events'[Len(events')]

\* The step paired an End event with a pending Begin; NewPair is the pair.
Matched == Len(pairs') = Len(pairs) + 1
NewPair == pairs'[Len(pairs')]

\* The entries of the pending registry and the Begin events they hold.
PendingEntries(be) == UNION {{<<k, t>> : t \in DOMAIN be[k]} : k \in DOMAIN be}
PendingBegins(be) == {be[x[1]][x[2]] : x \in PendingEntries(be)}

Indices(q) == 1..Len(q)
BeginIndices == {i \in Indices(events) : events[i].ph = "B"}
CompleteIndices == {i \in Indices(events) : IsComplete(events[i])}

RECURSIVE SumDurations(_)
SumDurations(q) ==
  IF q = <<>> THEN 0 ELSE Val(Head(q).dur) + SumDurations(Tail(q))

----------------------------------------------------------------------------
(* C1 *)

\* C1: whenever an End event is paired while Begin events with its matching
\* key are pending, it is paired with the pending Begin whose timestamp is
\* numerically smallest, whatever the number of digits of the timestamps.
C1_PairsEarliestBegin ==
  [][Matched =>
       \A b \in PendingBegins(beginEvents) :
         SpecKey(b) = SpecKey(NewPair.end) => NewPair.begin.ts <= b.ts]_vars

----------------------------------------------------------------------------
(* C2 *)

\* C2: an End event is only ever paired with a Begin event of the same
\* operation name and the same file path, an absent file path being
\* different from every present one.
C2_PairsShareNameAndPath ==
  \A i \in Indices(pairs) :
    /\ pairs[i].begin.name = pairs[i].end.name
    /\ getFilePath(pairs[i].begin) = getFilePath(pairs[i].end)

----------------------------------------------------------------------------
(* C3 *)

\* C3: the pending registry holds one entry per unmatched Begin event: every
\* Begin processed adds one entry and every match removes one, so the number
\* of entries is the number of Begin events minus the number of matches.
C3_OneEntryPerUnmatchedBegin ==
  Cardinality(PendingEntries(beginEvents)) =
    Cardinality(BeginIndices) - Len(pairs)

----------------------------------------------------------------------------
(* C4 *)

\* The tally t[k] holds the sum and the number of the durations of q, and
\* its average is their quotient.
TallyOf(t, k, q) ==
  /\ k \in DOMAIN t
  /\ t[k].totalTime = SumDurations(q)
  /\ t[k].count = Len(q)
  /\ t[k].averageTime.num * t[k].count = t[k].totalTime * t[k].averageTime.den

\* C4: for an input of Complete events only, the returned operationTimes of
\* every name (categoryTimes of every category) in it has the sum of the
\* durations of the events of that name (category) as totalTime, their
\* number as count, and totalTime / count as averageTime.
C4_CompleteOnlyTallies ==
  (pc = "done" /\ CompleteIndices = Indices(events)) =>
    \A i \in Indices(events) :
      /\ TallyOf(stats.operationTimes, events[i].name,
                 SelectSeq(events, LAMBDA e : e.name = events[i].name))
      /\ TallyOf(stats.categoryTimes, events[i].cat,
                 SelectSeq(events, LAMBDA e : e.cat = events[i].cat))

\* Two Complete events of one name with different durations and categories
\* have been aggregated: the average 7 / 2 is not an integer.
C4_Witness ==
  /\ pc = "done"
  /\ CompleteIndices = Indices(events)
  /\ Len(events) = 2
  /\ events[1].name = BIND /\ events[2].name = BIND
  /\ events[1].cat # events[2].cat
  /\ stats.operationTimes[BIND].totalTime = 7
  /\ stats.operationTimes[BIND].averageTime = [num |-> 7, den |-> 2]

----------------------------------------------------------------------------
(* C5 *)

\* C5: a matched Begin/End pair with interval d = end.ts - begin.ts updates
\* the operation, category and file tallies, the extension buckets and the
\* counted files exactly as a Complete event with duration d and the End
\* event's name, category and file path does, and leaves the
\* module-resolution tally as it is.
C5_MatchedPairAsComplete ==
  [][Matched =>
       LET d == NewPair.end.ts - NewPair.begin.ts
           c == OnComplete(Locals, [NewPair.end EXCEPT !.ph = "X", !.dur = Def(d)])
       IN /\ stats'.operationTimes = c.stats.operationTimes
          /\ stats'.categoryTimes = c.stats.categoryTimes
          /\ stats'.filesByType = c.stats.filesByType
          /\ fileTimings' = c.fileTimings
          /\ uniqueFiles' = c.uniqueFiles
          /\ stats'.moduleResolution = stats.moduleResolution]_vars

\* Begin at 10 and End at 50 named "bind" without file path have been
\* processed: operationTimes["bind"] has totalTime 40 and count 1.
C5_Witness ==
  /\ Len(events) = 2 /\ Len(pairs) = 1
  /\ events[1].ph = "B" /\ events[1].ts = 10 /\ events[1].name = BIND
  /\ events[2].ph = "E" /\ events[2].ts = 50 /\ events[2].name = BIND
  /\ getFilePath(events[2]) = Null
  /\ stats.operationTimes[BIND].totalTime = 40
  /\ stats.operationTimes[BIND].count = 1

----------------------------------------------------------------------------
(* C6 *)

PairsOfKey(k) == {i \in Indices(pairs) : SpecKey(pairs[i].begin) = k}
BeginsOfKey(k) == {i \in BeginIndices : SpecKey(events[i]) = k}

\* C6: a matched Begin leaves the pending registry at the match and is never
\* paired again: the registry never holds more entries than Begin events not
\* yet matched, and for every key the matched intervals formed from Begin
\* events of that key never outnumber the Begin events of that key.
C6_MatchedBeginNotReused ==
  /\ Cardinality(PendingEntries(beginEvents)) <=
       Cardinality(BeginIndices) - Len(pairs)
  /\ \A k \in {SpecKey(events[i]) : i \in BeginIndices}
              \cup {SpecKey(pairs[i].begin) : i \in Indices(pairs)} :
       Cardinality(PairsOfKey(k)) <= Cardinality(BeginsOfKey(k))

\* Begin at 5 and 8, then End at 20 and 30, all of one key: two intervals,
\* 15 and 22, and nothing is pending any more.
C6_Witness ==
  /\ Len(pairs) = 2
  /\ pairs[1].begin.ts = 5 /\ pairs[1].end.ts = 20
  /\ pairs[2].begin.ts = 8 /\ pairs[2].end.ts = 30
  /\ PendingEntries(beginEvents) = {}
  /\ stats.operationTimes[BIND].totalTime = 37

----------------------------------------------------------------------------
(* C7 *)

\* C7: an End event for whose matching key (name and file path) no Begin is
\* pending leaves every tally, the file timings and the counted files
\* unchanged.
C7_UnmatchedEndChangesNothing ==
  [][(/\ Took
      /\ Taken.ph = "E"
      /\ \A b \in PendingBegins(beginEvents) : SpecKey(b) # SpecKey(Taken))
       => /\ stats' = stats
          /\ uniqueFiles' = uniqueFiles
          /\ fileTimings' = fileTimings]_vars

----------------------------------------------------------------------------
(* C8 *)

\* The tallies of a returned Statistics, without the total build time.
Tallies(st) ==
  <<st.operationTimes, st.categoryTimes, st.slowestFiles, st.filesByType,
    st.totalFiles, st.moduleResolution>>

\* C8: a Begin event changes no tally when it is processed, and the
\* Statistics returned for an input that ends with it has the tallies of the
\* Statistics returned for the input without it.
C8_UnmatchedBeginDropped ==
  [][(Took /\ Taken.ph = "B")
       => /\ stats' = stats
          /\ uniqueFiles' = uniqueFiles
          /\ fileTimings' = fileTimings
          /\ Tallies(Finish(Locals', events')) = Tallies(Finish(Locals, events))]_vars

\* The pass has ended after a Begin event with a file path that is still
\* pending, with tallies from earlier events.
C8_Witness ==
  /\ pc = "done"
  /\ Len(events) >= 2
  /\ events[Len(events)].ph = "B"
  /\ getFilePath(events[Len(events)]) # Null
  /\ events[Len(events)] \in PendingBegins(beginEvents)
  /\ DOMAIN stats.operationTimes # {}
  /\ stats.totalFiles = 0

----------------------------------------------------------------------------
(* C9 *)

\* C9: the total and the count of moduleResolution change only when a
\* Complete event named "resolveModuleNamesWorker" is processed, by its
\* duration and by 1; a matched End event of that name leaves
\* moduleResolution unchanged and counts in operationTimes and categoryTimes.
C9_ModuleResolutionOnlyFromComplete ==
  [][/\ (\/ stats'.moduleResolution.totalTime # stats.moduleResolution.totalTime
         \/ stats'.moduleResolution.totalCount # stats.moduleResolution.totalCount)
          => /\ Took
             /\ IsComplete(Taken)
             /\ Taken.name = RESOLVE_MODULE_NAMES_WORKER
             /\ stats'.moduleResolution.totalTime =
                  stats.moduleResolution.totalTime + Val(Taken.dur)
             /\ stats'.moduleResolution.totalCount =
                  stats.moduleResolution.totalCount + 1
     /\ (Matched /\ NewPair.end.name = RESOLVE_MODULE_NAMES_WORKER)
          => /\ stats'.moduleResolution = stats.moduleResolution
             /\ stats'.operationTimes # stats.operationTimes
             /\ stats'.categoryTimes # stats.categoryTimes
             /\ NewPair.end.name \in DOMAIN stats'.operationTimes
             /\ NewPair.end.cat \in DOMAIN stats'.categoryTimes]_vars

\* A Complete event and a matched Begin/End pair, both named
\* "resolveModuleNamesWorker": the operation counts 2, moduleResolution 1.
C9_Witness ==
  /\ \E i \in Indices(pairs) : pairs[i].end.name = RESOLVE_MODULE_NAMES_WORKER
  /\ stats.moduleResolution.totalCount = 1
  /\ stats.moduleResolution.totalTime = 5
  /\ stats.operationTimes[RESOLVE_MODULE_NAMES_WORKER].count = 2
  /\ stats.operationTimes[RESOLVE_MODULE_NAMES_WORKER].totalTime = 10

----------------------------------------------------------------------------
(* C10 *)

PathsOf(evs) == {Val(getFilePath(e)) : e \in {x \in evs : getFilePath(x) # Null}}

\* C10: totalFiles is the number of distinct file paths carried by the events
\* of the whole input.
C10_TotalFilesAllPaths ==
  pc = "done" =>
    stats.totalFiles = Cardinality(PathsOf({events[i] : i \in Indices(events)}))

\* C10 amended: totalFiles is the number of distinct file paths carried by
\* the Complete events with a duration and by the End events that were
\* paired with a pending Begin.
C10_TotalFilesCountedPaths ==
  pc = "done" =>
    stats.totalFiles =
      Cardinality(PathsOf({events[i] : i \in CompleteIndices}
                          \cup {pairs[i].end : i \in Indices(pairs)}))

\* A path carried by a Complete event and by a matched End event is counted
\* once; the path carried by a Metadata event only is not counted.
C10_Witness ==
  /\ pc = "done"
  /\ stats.totalFiles = 1
  /\ \E i \in CompleteIndices : getFilePath(events[i]) = Def(F_TS)
  /\ \E i \in Indices(pairs) : getFilePath(pairs[i].end) = Def(F_TS)
  /\ \E i \in Indices(events) :
       events[i].ph = "M" /\ getFilePath(events[i]) = Def(MAKEFILE)

----------------------------------------------------------------------------
(* C11 *)

SlowestPaths == {stats.slowestFiles[j].path : j \in Indices(stats.slowestFiles)}

\* C11: the returned slowestFiles has at most 10 entries, all of them file
\* tallies and no file twice, is sorted by totalTime in non-increasing
\* order, leaves out no file while it has fewer than 10 entries and no file
\* with a larger totalTime than one it holds, and is empty when no event
\* carries a file path.
C11_SlowestFilesTopTen ==
  pc = "done" =>
    LET sf == stats.slowestFiles IN
    /\ Len(sf) <= 10
    /\ \A j \in Indices(sf) : \E i \in Indices(fileTimings) : sf[j] = fileTimings[i]
    /\ \A j, k \in Indices(sf) : j < k =>
         sf[j].path # sf[k].path /\ sf[j].totalTime >= sf[k].totalTime
    /\ \A i \in Indices(fileTimings) :
         fileTimings[i].path \notin SlowestPaths =>
           /\ Len(sf) = 10
           /\ \A j \in Indices(sf) : sf[j].totalTime >= fileTimings[i].totalTime
    /\ (\A i \in Indices(events) : getFilePath(events[i]) = Null) => sf = <<>>

\* Eleven files have been aggregated; ten are returned, and the file left
\* out ties with the last one returned.
C11_Witness ==
  /\ pc = "done"
  /\ Len(fileTimings) = 11
  /\ Len(stats.slowestFiles) = 10
  /\ \E i \in Indices(fileTimings) :
       /\ fileTimings[i].path \notin SlowestPaths
       /\ fileTimings[i].totalTime = stats.slowestFiles[10].totalTime

----------------------------------------------------------------------------
(* C12 *)

\* The effective end timestamp: the raw timestamp of a Begin or End event,
\* timestamp + duration of a Complete event, an absent duration being 0.
EffectiveEnd(e) ==
  IF e.ph = "X" THEN e.ts + (IF e.dur = Undefined THEN 0 ELSE Val(e.dur))
  ELSE e.ts

NonMetadataIndices == {i \in Indices(events) : events[i].ph # "M"}

\* C12: the returned total build time is the largest effective end timestamp
\* of the non-Metadata events minus the smallest raw timestamp of all
\* events, and 0 when the input has no non-Metadata event.
C12_TotalBuildTime ==
  pc = "done" =>
    IF NonMetadataIndices = {} THEN stats.totalTime = 0
    ELSE \E i \in NonMetadataIndices : \E k \in Indices(events) :
           /\ \A j \in NonMetadataIndices :
                EffectiveEnd(events[j]) <= EffectiveEnd(events[i])
           /\ \A l \in Indices(events) : events[k].ts <= events[l].ts
           /\ stats.totalTime = EffectiveEnd(events[i]) - events[k].ts

\* [Complete ts 0 dur 100, Begin ts 50, End ts 200] has returned 200.
C12_Witness ==
  /\ pc = "done"
  /\ Len(events) = 3
  /\ events[1].ph = "X" /\ events[1].ts = 0 /\ events[1].dur = Def(100)
  /\ events[2].ph = "B" /\ events[2].ts = 50
  /\ events[3].ph = "E" /\ events[3].ts = 200
  /\ stats.totalTime = 200

----------------------------------------------------------------------------
(* C13 *)

\* C13: Metadata events are discarded: the locals of the invocation (the
\* tallies, the file timings, the counted files and the pending registry)
\* are those the input without its Metadata events gives, and so are the
\* tallies of the returned Statistics.
C13_MetadataDiscarded ==
  LET rest == SelectNonMetadata(events) IN
  /\ beginEvents = RunLoop(FirstLocals, rest).beginEvents
  /\ uniqueFiles = RunLoop(FirstLocals, rest).uniqueFiles
  /\ fileTimings = RunLoop(FirstLocals, rest).fileTimings
  /\ pc = "loop" => stats = RunLoop(FirstLocals, rest).stats
  /\ pc = "done" => Tallies(stats) = Tallies(analyzeTrace(rest))

\* A Metadata event that carries a file path stood between a Begin and the
\* End paired with it; its path is not counted.
C13_Witness ==
  /\ pc = "done"
  /\ Len(events) = 3 /\ Len(pairs) = 1
  /\ events[1].ph = "B" /\ events[2].ph = "M" /\ events[3].ph = "E"
  /\ getFilePath(events[2]) = Def(MAKEFILE)
  /\ MAKEFILE \notin uniqueFiles
  /\ DOMAIN stats.categoryTimes = {events[3].cat}

----------------------------------------------------------------------------
(* C14 *)

HasDot(path) == \E i \in 1..Len(path) : path[i] = "."
LastDot(path) ==
  CHOOSE i \in 1..Len(path) :
    path[i] = "." /\ \A j \in 1..Len(path) : path[j] = "." => j <= i
AfterLastDot(path) == SubSeq(path, LastDot(path) + 1, Len(path))

\* C14: the extension buckets are those of the counted files, the bucket of
\* a file being the text after the last '.' of its path whenever the path
\* has a '.', also when it ends with it, and "unknown" otherwise.
C14_ExtensionAfterLastDot ==
  DOMAIN stats.filesByType =
    {IF HasDot(path) THEN AfterLastDot(path) ELSE UNKNOWN : path \in uniqueFiles}

\* C14 amended: the bucket of a file is the text after the last '.' of its
\* path when the path has a '.' and does not end with it, and "unknown" when
\* the path has no '.' or ends with '.'; the case of the letters is kept.
C14_ExtensionAfterLastInnerDot ==
  DOMAIN stats.filesByType =
    {IF HasDot(path) /\ path[Len(path)] # "." THEN AfterLastDot(path)
     ELSE UNKNOWN : path \in uniqueFiles}

\* "src/app.module.ts" and "src/app.module.Ts" have been counted: the
\* buckets are "ts" and "Ts".
C14_Witness ==
  /\ uniqueFiles = {SRC_APP_MODULE_TS, OtherCase(SRC_APP_MODULE_TS)}
  /\ DOMAIN stats.filesByType = {<<"t", "s">>, <<"T", "s">>}

----------------------------------------------------------------------------
(* C15 *)

\* C15: filesByType[t] is the number of distinct counted file paths whose
\* extension is t, so the values of filesByType sum to totalFiles.
C15_FilesByTypeCountsFiles ==
  \A t \in DOMAIN stats.filesByType :
    stats.filesByType[t] =
      Cardinality({path \in uniqueFiles : getFileExtension(path) = t})

----------------------------------------------------------------------------
(* C16 *)

\* entry.averageTime is the exact quotient total / count.
IsAverage(average, total, count) ==
  /\ average.den > 0
  /\ average.num * count = total * average.den

\* C16: in the finalized statistics every entry of operationTimes and of
\* categoryTimes has count > 0 and averageTime = totalTime / count, and
\* moduleResolution.averageTime is totalTime / totalCount when totalCount > 0
\* and the default 0 when totalCount = 0.
C16_AveragesAreTotalOverCount ==
  pc = "done" =>
    /\ \A k \in DOMAIN stats.operationTimes :
         LET entry == stats.operationTimes[k] IN
         entry.count > 0 /\ IsAverage(entry.averageTime, entry.totalTime, entry.count)
    /\ \A k \in DOMAIN stats.categoryTimes :
         LET entry == stats.categoryTimes[k] IN
         entry.count > 0 /\ IsAverage(entry.averageTime, entry.totalTime, entry.count)
    /\ LET mr == stats.moduleResolution IN
       IF mr.totalCount > 0
       THEN IsAverage(mr.averageTime, mr.totalTime, mr.totalCount)
       ELSE mr.averageTime = Zero

\* A finalized operation tally of several operations whose average is not
\* an integer, next to a module resolution tally that stayed empty.
C16_Witness ==
  /\ pc = "done"
  /\ stats.moduleResolution.totalCount = 0
  /\ \E k \in DOMAIN stats.operationTimes :
       /\ stats.operationTimes[k].count > 1
       /\ stats.operationTimes[k].averageTime.den > 1

----------------------------------------------------------------------------
(* C17 *)

\* C17: the statistics returned for an empty event sequence have totalTime
\* 0, totalFiles 0, no entry in operationTimes, categoryTimes, filesByType
\* and slowestFiles, and a moduleResolution whose fields are all 0.
C17_EmptyInputYieldsZeros ==
  (pc = "done" /\ events = <<>>) =>
    /\ stats.totalTime = 0
    /\ stats.totalFiles = 0
    /\ DOMAIN stats.operationTimes = {}
    /\ DOMAIN stats.categoryTimes = {}
    /\ DOMAIN stats.filesByType = {}
    /\ stats.slowestFiles = <<>>
    /\ stats.moduleResolution.totalTime = 0
    /\ stats.moduleResolution.totalCount = 0
    /\ stats.moduleResolution.averageTime = Zero

\* analyzeTrace has returned for the empty sequence.
C17_Witness ==
  /\ pc = "done"
  /\ events = <<>>
  /\ stats = analyzeTrace(<<>>)

----------------------------------------------------------------------------
(* C18 *)

\* The locals and the result of an invocation are those of analyzeTrace run
\* alone on the events the invocation has taken, and every Begin it paired
\* is an event of its own trace that it had taken before.
RunsAlone(inv) ==
  /\ inv.beginEvents = RunLoop(FirstLocals, inv.events).beginEvents
  /\ inv.uniqueFiles = RunLoop(FirstLocals, inv.events).uniqueFiles
  /\ inv.fileTimings = RunLoop(FirstLocals, inv.events).fileTimings
  /\ inv.pc = "loop" => inv.stats = RunLoop(FirstLocals, inv.events).stats
  /\ inv.pc = "done" => inv.stats = analyzeTrace(inv.events)
  /\ \A i \in 1..Len(inv.pairs) :
       /\ inv.pairs[i].begin \in inv.pool
       /\ \E j \in 1..Len(inv.events) : inv.events[j] = inv.pairs[i].begin

\* C18: the bookkeeping of analyzeTrace belongs to one invocation: what an
\* invocation returns depends on its own event sequence only, whether other
\* invocations ran before it or are interleaved with it, and no End of one
\* invocation is paired with a pending Begin of another.
C18_InvocationsIndependent ==
  /\ RunsAlone(Suspended)
  /\ other # NoInvocation => RunsAlone(other)

\* Both invocations have returned; the one that is suspended registered its
\* Begin before the other took its End, and that End stayed unmatched.
C18_Witness ==
  /\ pc = "done"
  /\ other # NoInvocation
  /\ other.pc = "done"
  /\ Len(other.events) = 1 /\ other.events[1].ph = "B"
  /\ Len(events) = 1 /\ events[1].ph = "E"
  /\ MatchKey(events[1]) = MatchKey(other.events[1])
  /\ pairs = <<>>
  /\ DOMAIN stats.operationTimes = {}

----------------------------------------------------------------------------
(* C19 *)

\* The files left out of slowestFiles.
LeftOut == {i \in Indices(fileTimings) : fileTimings[i].path \notin SlowestPaths}

\* The path a was first encountered before the path b.
EncounteredBefore(a, b) == FileIndex(fileTimings, a) < FileIndex(fileTimings, b)

TiedBefore(a, b) ==
  IF IsArrayIndex(a)
  THEN IsArrayIndex(b) => ToNumber(a) < ToNumber(b)
  ELSE ~IsArrayIndex(b) /\ EncounteredBefore(a, b)

C19_WitnessNumericOrder ==
  /\ pc = "done"
  /\ Len(fileTimings) = 3
  /\ fileTimings[1].path = <<"g">>
  /\ fileTimings[2].path = <<"1", "0">>
  /\ fileTimings[3].path = <<"7">>
  /\ stats.slowestFiles[1].path = <<"7">>
  /\ stats.slowestFiles[2].path = <<"1", "0">>
  /\ stats.slowestFiles[3].path = <<"g">>

----------------------------------------------------------------------------
(* C20 *)

\* The sum of the values of a per-operation breakdown.
RECURSIVE SumValues(_)
SumValues(ops) ==
  IF DOMAIN ops = {} THEN 0
  ELSE LET k == CHOOSE x \in DOMAIN ops : TRUE
       IN ops[k] + SumValues(Remove(ops, k))

Min(a, b) == IF a <= b THEN a ELSE b

\* C20: after any sequence of events the totalTime of every file tally is
\* the sum of the values of its operations map and the files with a tally
\* are the files counted in totalFiles, so the returned slowestFiles has
\* min(10, totalFiles) entries.
C20_FileTalliesConsistent ==
  /\ \A i \in Indices(fileTimings) :
       fileTimings[i].totalTime = SumValues(fileTimings[i].operations)
  /\ {fileTimings[i].path : i \in Indices(fileTimings)} = uniqueFiles
  /\ Len(fileTimings) = Cardinality(uniqueFiles)
  /\ pc = "done" =>
       /\ stats.totalFiles = Cardinality(uniqueFiles)
       /\ Len(stats.slowestFiles) = Min(10, stats.totalFiles)

\* Eleven files are counted, ten are returned, and one file has time under
\* two operations, one of them from a Begin/End pair.
C20_Witness ==
  /\ pc = "done"
  /\ stats.totalFiles = 11
  /\ Len(stats.slowestFiles) = 10
  /\ Len(pairs) = 1
  /\ \E i \in Indices(fileTimings) :
       Cardinality(DOMAIN fileTimings[i].operations) = 2

----------------------------------------------------------------------------
(* C21 *)

\* The sums of count and of totalTime over the entries of a tally map.
RECURSIVE SumCount(_)
SumCount(tally) ==
  IF DOMAIN tally = {} THEN 0
  ELSE LET k == CHOOSE x \in DOMAIN tally : TRUE
       IN tally[k].count + SumCount(Remove(tally, k))

RECURSIVE SumTotalTime(_)
SumTotalTime(tally) ==
  IF DOMAIN tally = {} THEN 0
  ELSE LET k == CHOOSE x \in DOMAIN tally : TRUE
       IN tally[k].totalTime + SumTotalTime(Remove(tally, k))

\* C21: after any sequence of events the counts of operationTimes and the
\* counts of categoryTimes have the same sum, which is the number of
\* Complete events with a duration plus the number of matched End events,
\* and the totalTime values of the two maps have the same sum.
C21_OperationsAndCategoriesAgree ==
  /\ SumCount(stats.operationTimes) = SumCount(stats.categoryTimes)
  /\ SumTotalTime(stats.operationTimes) = SumTotalTime(stats.categoryTimes)
  /\ SumCount(stats.operationTimes) = Cardinality(CompleteIndices) + Len(pairs)

\* Complete events and a matched End have been counted, under two
\* operations and two categories that divide them differently.
C21_Witness ==
  /\ pc = "done"
  /\ Cardinality(CompleteIndices) = 2
  /\ Len(pairs) = 1
  /\ Cardinality(DOMAIN stats.operationTimes) = 2
  /\ Cardinality(DOMAIN stats.categoryTimes) = 2
  /\ \E k \in DOMAIN stats.operationTimes :
       \A c \in DOMAIN stats.categoryTimes :
         stats.operationTimes[k].totalTime # stats.categoryTimes[c].totalTime

----------------------------------------------------------------------------
(* C22 *)

\* The events taken so far stand in non-decreasing timestamp order.
InTimestampOrder ==
  \A i, j \in Indices(events) : i < j => events[i].ts <= events[j].ts

\* No Complete event taken so far has a negative duration.
DurationsNonNegative == \A i \in CompleteIndices : Val(events[i].dur) >= 0

\* No time value of the tallies or of the returned Statistics is negative.
NoNegativeTime ==
  /\ \A i \in Indices(pairs) : pairs[i].end.ts - pairs[i].begin.ts >= 0
  /\ \A k \in DOMAIN stats.operationTimes : stats.operationTimes[k].totalTime >= 0
  /\ \A k \in DOMAIN stats.categoryTimes : stats.categoryTimes[k].totalTime >= 0
  /\ \A i \in Indices(fileTimings) :
       /\ fileTimings[i].totalTime >= 0
       /\ \A k \in DOMAIN fileTimings[i].operations :
            fileTimings[i].operations[k] >= 0
  /\ stats.moduleResolution.totalTime >= 0
  /\ pc = "done" =>
       /\ stats.totalTime >= 0
       /\ \A i \in Indices(stats.slowestFiles) :
            stats.slowestFiles[i].totalTime >= 0

\* C22: when the events stand in non-decreasing timestamp order and no
\* Complete duration is negative, every matched Begin/End interval, every
\* totalTime of operationTimes, categoryTimes and the file tallies, and the
\* total build time are at least 0, whichever pending Begin is paired.
C22_NoNegativeTimeInOrder ==
  (InTimestampOrder /\ DurationsNonNegative) => NoNegativeTime

\* An ordered input has been aggregated in which the End was paired with
\* the later of two pending Begin events, next to a Complete event.
C22_Witness ==
  /\ pc = "done"
  /\ InTimestampOrder
  /\ DurationsNonNegative
  /\ Len(events) = 4
  /\ CompleteIndices # {}
  /\ Len(pairs) = 1
  /\ pairs[1].begin.ts = 10
  /\ \E i \in BeginIndices : events[i].ts < 10
  /\ stats.totalTime > 0

====
